---- MODULE Spec2Model ----
(***************************************************************************)
(* A model of scripts/piano_data_generator.py: the fixture generator of   *)
(* the piano application.  The store (tables users, songs, piano_lessons) *)
(* is the state; one step of the model is one invocation of main().       *)
(*                                                                         *)
(* Fixed-point conventions: a raw percentage drawn by random.uniform is   *)
(* an integer number of thousandths of a percent; a percentage stored by  *)
(* round(x, 2) is an integer number of hundredths of a percent.           *)
(***************************************************************************)
EXTENDS Integers, Sequences, FiniteSets, TLC

\* Bounds of the model.
MaxClock == 2      \* invocations of main() in one behaviour
MaxSeed == 3       \* random tapes 0..MaxSeed offered to generate_lessons

VARIABLES
    dbExists,       \* DATABASE.exists()
    users,          \* table users
    songs,          \* table songs
    piano_lessons,  \* table piano_lessons
    clock,          \* the day of the last invocation; timestamps are in seconds
    argv,           \* the arguments of the last invocation
    confirm,        \* the answer read by input() in the last invocation, or <<>>
    log,            \* the calls main() made in the last invocation, in order
    prior,          \* log of the invocation before the last one
    printed,        \* the counts printed by the last invocation
    inserted,       \* the raw draws behind each row the last invocation stored
    sessions,       \* every session the last invocation sampled, and its outcome
    before          \* the tables as the last invocation found them

vars == <<dbExists, users, songs, piano_lessons, clock, argv, confirm, log,
          prior, printed, inserted, sessions, before>>

----------------------------------------------------------------------------
\* Static reference data

Song(id, title, composer, duration, bpm, total_notes) ==
    [id |-> id, title |-> title, composer |-> composer, duration |-> duration,
     bpm |-> bpm, total_notes |-> total_notes]

\* SONGS.values() iterates in insertion order
SongTiers == <<"beginner", "intermediate", "advanced", "master">>

SONGS ==
    [beginner |-> <<
        Song(1, "Twinkle Twinkle Little Star", "Traditional", 45, 80, 26),
        Song(2, "Mary Had a Little Lamb", "Sarah Josepha Hale", 50, 75, 25),
        Song(3, "Ode to Joy", "Ludwig van Beethoven", 55, 85, 28),
        Song(4, "Happy Birthday", "Mildred J. Hill", 40, 100, 24),
        Song(5, "Jingle Bells", "James Pierpont", 60, 120, 30) >>,
     intermediate |-> <<
        Song(6, "Moonlight Sonata (1st Movement)", "Beethoven", 180, 70, 120),
        Song(7, "Fur Elise", "Beethoven", 150, 90, 110),
        Song(8, "Nocturne Op. 9 No. 2", "Chopin", 200, 60, 130),
        Song(9, "Waltz of the Flowers", "Tchaikovsky", 240, 140, 140),
        Song(10, "Prelude in C Major", "Bach", 160, 80, 100) >>,
     advanced |-> <<
        Song(11, "Sonata No. 8 (Pathetique)", "Beethoven", 900, 80, 200),
        Song(12, "Ballade No. 1", "Chopin", 1200, 70, 220),
        Song(13, "Hungarian Rhapsody No. 2", "Liszt", 1400, 160, 240),
        Song(14, "Rondo Alla Turca", "Mozart", 480, 140, 180),
        Song(15, "La Campanella", "Liszt", 600, 180, 200) >>,
     master |-> <<
        Song(16, "Goldberg Variations BWV 988", "Bach", 2400, 100, 300),
        Song(17, "The Art of Fugue", "Bach", 2800, 80, 320),
        Song(18, "Transcendental Etude No. 4", "Liszt", 1800, 180, 280),
        Song(19, "Piano Concerto No. 1", "Tchaikovsky", 2000, 120, 300),
        Song(20, "Rachmaninoff Prelude Op. 3 No. 2", "Rachmaninoff", 900, 60, 250) >>]

\* An email address is kept as its local part and its domain, so that
\* LIKE '%@piano.local' can be evaluated.
Email(local, domain) == [local |-> local, domain |-> domain]

User(id, username, local) ==
    [id |-> id, username |-> username, email |-> Email(local, "piano.local")]

USERS == <<
    User(1, "alice_piano", "alice"),
    User(2, "bob_beginner", "bob"),
    User(3, "carol_advanced", "carol"),
    User(4, "dave_master", "dave"),
    User(5, "eve_intermediate", "eve"),
    User(6, "frank_beginner", "frank"),
    User(7, "grace_advanced", "grace"),
    User(8, "henry_master", "henry"),
    User(9, "iris_intermediate", "iris"),
    User(10, "jack_beginner", "jack"),
    User(11, "kate_advanced", "kate"),
    User(12, "liam_expert", "liam"),
    User(13, "mona_intermediate", "mona"),
    User(14, "noah_beginner", "noah"),
    User(15, "olivia_advanced", "olivia"),
    User(16, "paul_master", "paul"),
    User(17, "quinn_intermediate", "quinn"),
    User(18, "rachel_beginner", "rachel"),
    User(19, "sam_advanced", "sam"),
    User(20, "tara_expert", "tara") >>

Level(level, song_start, song_end) ==
    [level |-> level, song_start |-> song_start, song_end |-> song_end]

\* the dict literal of generate_lessons, key by key
user_levels ==
    (2 :> Level("beginner", 1, 5)) @@ (6 :> Level("beginner", 1, 5)) @@
    (10 :> Level("beginner", 1, 5)) @@ (14 :> Level("beginner", 1, 5)) @@
    (18 :> Level("beginner", 1, 5)) @@
    (5 :> Level("intermediate", 6, 10)) @@ (9 :> Level("intermediate", 6, 10)) @@
    (13 :> Level("intermediate", 6, 10)) @@ (17 :> Level("intermediate", 6, 10)) @@
    (3 :> Level("advanced", 11, 15)) @@ (7 :> Level("advanced", 11, 15)) @@
    (11 :> Level("advanced", 11, 15)) @@ (15 :> Level("advanced", 11, 15)) @@
    (19 :> Level("advanced", 11, 15)) @@
    (4 :> Level("master", 16, 20)) @@ (8 :> Level("master", 16, 20)) @@
    (12 :> Level("master", 16, 20)) @@ (16 :> Level("master", 16, 20)) @@
    (20 :> Level("master", 16, 20)) @@
    (1 :> Level("advanced", 11, 15))

----------------------------------------------------------------------------
\* The store

\* email LIKE '%@piano.local'
IsFixtureEmail(email) == email.domain = "piano.local"

FixtureUserCount(table) == Cardinality({u \in table : IsFixtureEmail(u.email)})

\* INSERT OR REPLACE in place of INSERT OR IGNORE
InsertOrReplaceUser(table, row) ==
    {r \in table : r.id # row.id} \cup {row}

\* INSERT OR IGNORE INTO users: a row whose id is taken is skipped
InsertOrIgnoreUser(table, row) ==
    IF \E r \in table : r.id = row.id THEN table ELSE table \cup {row}

UserRow(u, now) ==
    [id |-> u.id, username |-> u.username, email |-> u.email,
     password_hash |-> <<"hash_", u.username>>, created_at |-> now * 86400]

RECURSIVE InsertUsers(_, _, _)
InsertUsers(k, table, now) ==
    IF k > Len(USERS) THEN table
    ELSE InsertUsers(k + 1, InsertOrIgnoreUser(table, UserRow(USERS[k], now)), now)

\* generate_users(conn): the users table afterwards and the count it prints
generate_users(table, now) ==
    LET after == InsertUsers(1, table, now)
    IN [users |-> after, count |-> FixtureUserCount(after)]

----------------------------------------------------------------------------
\* The random source and the store's answer to an INSERT, as inputs.
\* Tape n fixes every draw of one generate_lessons call: the entropy behind
\* draw number `slot` of session i of user uid is base + spread * (a mix of
\* uid, i and slot).  Tape 2 puts every draw at the lower end of its range,
\* tape 3 at the upper end; the others spread the draws over the ranges.
\* fault selects which INSERTs the store rejects (0: none).

Extreme(n) == n \in {2, 3}

Tape(n) ==
    [base |-> IF n = 2 THEN 0 ELSE IF n = 3 THEN -1 ELSE (n + 1) * 7919,
     spread |-> IF Extreme(n) THEN 0 ELSE 1,
     fault |-> IF Extreme(n) THEN 0 ELSE n % 3]

Tapes == 0..MaxSeed

Entropy(tape, uid, i, slot) ==
    tape.base + tape.spread * (uid * 613 + i * 89 + slot * 3583)

\* random.randint(a, b): an integer of a..b
randint(a, b, e) == a + (e % (b - a + 1))

\* random.uniform(a, b), in thousandths: a value of [a, b]
uniform(a, b, e) == a * 1000 + (e % ((b - a) * 1000 + 1))

\* cursor.execute(INSERT INTO piano_lessons ...) raises
InsertRaises(tape, uid, i) ==
    tape.fault > 0 /\ (uid + i) % (tape.fault + 1) = 0

----------------------------------------------------------------------------
\* generate_lessons

\* round(x, 2) of x given in units of 1/(100 * d) percent: hundredths,
\* ties to the even neighbour
round2(x, d) ==
    LET q == x \div d
        r == x % d
    IN IF 2 * r < d THEN q
       ELSE IF 2 * r > d THEN q + 1
       ELSE IF q % 2 = 0 THEN q ELSE q + 1

\* the inner loop over one tier: the first song of the tier with this id
RECURSIVE FindInTier(_, _, _)
FindInTier(tierSongs, k, song_id) ==
    IF k > Len(tierSongs) THEN <<>>
    ELSE IF tierSongs[k].id = song_id THEN <<tierSongs[k]>>
    ELSE FindInTier(tierSongs, k + 1, song_id)

\* song_info reset on every pass of the outer loop: only the last tier counts
FindSongLastTier(t, song_id, song_info) ==
    FindInTier(SONGS[SongTiers[Len(SongTiers)]], 1, song_id)

\* the outer loop over SONGS.values(): it does not stop at a hit
RECURSIVE FindSong(_, _, _)
FindSong(t, song_id, song_info) ==
    IF t > Len(SongTiers) THEN song_info
    ELSE LET hit == FindInTier(SONGS[SongTiers[t]], 1, song_id)
         IN FindSong(t + 1, song_id, IF hit # <<>> THEN hit ELSE song_info)

\* range(random.randint(2, 5))
SessionCountFromTwo(e) == randint(2, 5, e)

\* range(random.randint(3, 5))
SessionCount(e) == randint(3, 5, e)

\* song_id = random.randint(song_start, song_end + 1)
SampleSongIdPastEnd(level, e) == randint(level.song_start, level.song_end + 1, e)

\* song_id = random.randint(song_start, song_end)
SampleSongId(level, e) == randint(level.song_start, level.song_end, e)

\* notes_correct = round(total_notes * accuracy / 100)
NotesCorrectRounded(total_notes, accuracy) ==
    (total_notes * accuracy + 50000) \div 100000

\* notes_correct = int(total_notes * accuracy / 100), accuracy in thousandths
NotesCorrect(total_notes, accuracy) == (total_notes * accuracy) \div 100000

\* score = (accuracy * 0.7) + (tempo_accuracy * 0.3), in 1/10000 percent
Score(accuracy, tempo_accuracy) == 7 * accuracy + 3 * tempo_accuracy

\* the row of one INSERT INTO piano_lessons; the rowid the store assigns is
\* the row's position in the table
LessonRow(uid, song, days_ago, accuracy, tempo_accuracy, now) ==
    [user_id |-> uid,
     song_id |-> song.id,
     start_time |-> (now - days_ago) * 86400,
     end_time |-> (now - days_ago) * 86400 + song.duration,
     duration |-> song.duration,
     notes_correct |-> NotesCorrect(song.total_notes, accuracy),
     notes_total |-> song.total_notes,
     accuracy |-> round2(accuracy, 10),
     tempo_accuracy |-> round2(tempo_accuracy, 10),
     score |-> round2(Score(accuracy, tempo_accuracy), 100),
     completed |-> 1,
     created_at |-> now * 86400]

\* one pass of the body of `for i in range(...)`: the draws, the lookup in
\* SONGS and the answer of the store.  kind is "skipped" (`continue`),
\* "error" (the except branch) or "inserted".
Session(tape, uid, i) ==
    LET level == user_levels[uid]
        song_id == SampleSongId(level, Entropy(tape, uid, i, 1))
        song_info == FindSong(1, song_id, <<>>)
    IN [kind |-> IF song_info = <<>> THEN "skipped"
                 ELSE IF InsertRaises(tape, uid, i) THEN "error"
                 ELSE "inserted",
        uid |-> uid,
        song |-> song_info,
        days_ago |-> randint(1, 7, Entropy(tape, uid, i, 2)),
        accuracy |-> uniform(75, 97, Entropy(tape, uid, i, 3)),
        tempo_accuracy |-> uniform(80, 99, Entropy(tape, uid, i, 4))]

\* for i in range(random.randint(3, 5)), for one user
SessionLoop(tape, uid) ==
    [j \in 1..SessionCount(Entropy(tape, uid, 0, 0)) |-> Session(tape, uid, j - 1)]

\* for uid, username, _ in USERS: the sessions of the first k users, in order
RECURSIVE UserLoop(_, _)
UserLoop(tape, k) ==
    IF k = 0 THEN <<>>
    ELSE LET uid == USERS[k].id
         IN IF uid \notin DOMAIN user_levels
            THEN UserLoop(tape, k - 1)
            ELSE UserLoop(tape, k - 1) \o SessionLoop(tape, uid)

\* lesson_count += 1 placed before the execute()
CountsAttempt(session) == session.kind \in {"inserted", "error"}

\* lesson_count += 1 runs after an execute() that did not raise
CountsAsLesson(session) == session.kind = "inserted"

\* print(f"  Error inserting lesson for user {uid}: {e}")
LogsError(session) == session.kind = "error"

\* What one run of generate_lessons under tape n on day `now` does: the rows
\* it stores, the count it prints, the users whose insert it reports as
\* failed, and the raw draws behind each stored row.
RunLessons(n, now) ==
    LET sampled == UserLoop(Tape(n), Len(USERS))
        Stored(session) == session.kind = "inserted"
        stored == SelectSeq(sampled, Stored)
        failed == SelectSeq(sampled, LogsError)
    IN [rows |-> [k \in 1..Len(stored) |->
                    LessonRow(stored[k].uid, stored[k].song[1], stored[k].days_ago,
                              stored[k].accuracy, stored[k].tempo_accuracy, now)],
        lesson_count |-> Len(SelectSeq(sampled, CountsAsLesson)),
        draws |-> [k \in 1..Len(stored) |->
                    [accuracy |-> stored[k].accuracy,
                     tempo_accuracy |-> stored[k].tempo_accuracy]],
        errors |-> [k \in 1..Len(failed) |-> failed[k].uid],
        sessions |-> [k \in 1..Len(sampled) |->
                        [uid |-> sampled[k].uid, kind |-> sampled[k].kind]]]

\* The draws and the store's answers do not read the tables, so the runs
\* are tabulated once per tape and day.
Runs == [n \in 0..MaxSeed |-> [now \in 1..MaxClock |-> RunLessons(n, now)]]

\* generate_lessons(conn): the table afterwards, and the rest of the run
generate_lessons(table, n, now) ==
    [piano_lessons |-> table \o Runs[n][now].rows, run |-> Runs[n][now]]

----------------------------------------------------------------------------
\* show_stats

\* SELECT COUNT(*) FROM piano_lessons pl JOIN songs s ON pl.song_id = s.id
\* WHERE s.difficulty = ?   (songs.id is the table's key: a lesson joins at
\* most one song)
LessonsByDifficulty(songTable, lessonTable, difficulty) ==
    LET ids == {s.id : s \in {t \in songTable : t.difficulty = difficulty}}
    IN Cardinality({k \in 1..Len(lessonTable) : lessonTable[k].song_id \in ids})

\* the counts show_stats prints (the accuracy line is not modelled)
show_stats(userTable, songTable, lessonTable) ==
    [user_count |-> FixtureUserCount(userTable),
     song_count |-> Cardinality(songTable),
     lesson_count |-> Len(lessonTable),
     by_difficulty |-> [d \in {SongTiers[t] : t \in 1..Len(SongTiers)} |->
                          LessonsByDifficulty(songTable, lessonTable, d)]]

----------------------------------------------------------------------------
\* clean_data

\* WHERE user_id >= 1 OR user_id IN (...)
DeletesLessonFromOne(user_id, fixture_ids) ==
    user_id >= 1 \/ user_id \in fixture_ids

\* WHERE user_id > 1 OR user_id IN (SELECT id FROM users WHERE email LIKE ...)
DeletesLesson(user_id, fixture_ids) == user_id > 1 \/ user_id \in fixture_ids

clean_data(userTable, songTable, lessonTable) ==
    LET fixture_ids == {u.id : u \in {x \in userTable : IsFixtureEmail(x.email)}}
        Kept(row) == ~DeletesLesson(row.user_id, fixture_ids)
    IN [piano_lessons |-> SelectSeq(lessonTable, Kept),
        users |-> {u \in userTable : ~IsFixtureEmail(u.email)},
        songs |-> {}]

----------------------------------------------------------------------------
\* main

Args(generate, stats, clean) ==
    [generate |-> generate, stats |-> stats, clean |-> clean]

\* the command lines offered to main(); "none" is an absent --generate
ArgVectors ==
    {Args("all", FALSE, FALSE), Args("users", FALSE, FALSE),
     Args("lessons", FALSE, FALSE), Args("none", TRUE, FALSE),
     Args("none", FALSE, TRUE), Args("none", FALSE, FALSE),
     Args("none", TRUE, TRUE), Args("users", FALSE, TRUE)}

\* the answers offered to input()
Answers == {"y", "Y", "n"}

\* str.lower() on the answers
lower(s) == IF s = "Y" THEN "y" ELSE s

\* confirm.lower() == "y"
Confirmed(answer) == lower(answer) = "y"

\* main() without the DATABASE.exists() check
DatabaseNeverMissing(exists) == FALSE

\* if not DATABASE.exists(): a missing target stops main before connect_db()
DatabaseMissing(exists) == ~exists

Nothing == [users |-> <<>>, lessons |-> <<>>, errors |-> <<>>, stats |-> <<>>]

NotFound ==
    /\ log' = <<"not_found">>
    /\ confirm' = <<>>
    /\ printed' = Nothing
    /\ inserted' = <<>>
    /\ sessions' = <<>>
    /\ UNCHANGED <<users, songs, piano_lessons>>

GenerateAll(now) ==
    \E n \in Tapes :
    \E u \in {generate_users(users, now)} :
    \E l \in {generate_lessons(piano_lessons, n, now)} :
        /\ users' = u.users
        /\ piano_lessons' = l.piano_lessons
        /\ inserted' = l.run.draws
        /\ sessions' = l.run.sessions
        /\ printed' = [users |-> <<u.count>>, lessons |-> <<l.run.lesson_count>>,
                       errors |-> l.run.errors,
                       stats |-> <<show_stats(u.users, songs, l.piano_lessons)>>]
        /\ log' = <<"connect", "generate_users", "generate_lessons",
                    "show_stats", "close">>
        /\ confirm' = <<>>
        /\ UNCHANGED songs

GenerateUsers(now) ==
    \E u \in {generate_users(users, now)} :
        /\ users' = u.users
        /\ printed' = [Nothing EXCEPT !.users = <<u.count>>]
        /\ log' = <<"connect", "generate_users", "close">>
        /\ confirm' = <<>>
        /\ inserted' = <<>>
        /\ sessions' = <<>>
        /\ UNCHANGED <<songs, piano_lessons>>

GenerateLessons(now) ==
    \E n \in Tapes :
    \E l \in {generate_lessons(piano_lessons, n, now)} :
        /\ piano_lessons' = l.piano_lessons
        /\ inserted' = l.run.draws
        /\ sessions' = l.run.sessions
        /\ printed' = [Nothing EXCEPT !.lessons = <<l.run.lesson_count>>,
                                      !.errors = l.run.errors]
        /\ log' = <<"connect", "generate_lessons", "close">>
        /\ confirm' = <<>>
        /\ UNCHANGED <<users, songs>>

Stats ==
    /\ printed' = [Nothing EXCEPT !.stats = <<show_stats(users, songs, piano_lessons)>>]
    /\ log' = <<"connect", "show_stats", "close">>
    /\ confirm' = <<>>
    /\ inserted' = <<>>
    /\ sessions' = <<>>
    /\ UNCHANGED <<users, songs, piano_lessons>>

Clean ==
    \E answer \in Answers :
        /\ confirm' = <<answer>>
        /\ printed' = Nothing
        /\ inserted' = <<>>
        /\ sessions' = <<>>
        /\ IF Confirmed(answer)
           THEN \E c \in {clean_data(users, songs, piano_lessons)} :
                   /\ users' = c.users
                   /\ songs' = c.songs
                   /\ piano_lessons' = c.piano_lessons
                   /\ log' = <<"connect", "input", "clean_data", "close">>
           ELSE /\ log' = <<"connect", "input", "close">>
                /\ UNCHANGED <<users, songs, piano_lessons>>

Help ==
    /\ log' = <<"connect", "print_help", "close">>
    /\ confirm' = <<>>
    /\ printed' = Nothing
    /\ inserted' = <<>>
    /\ sessions' = <<>>
    /\ UNCHANGED <<users, songs, piano_lessons>>

\* the branch main() takes: the exists() check, then the if/elif chain
Branch(args) ==
    IF DatabaseMissing(dbExists) THEN "not_found"
    ELSE IF args.generate = "all" THEN "all"
    ELSE IF args.generate = "users" THEN "users"
    ELSE IF args.generate = "lessons" THEN "lessons"
    ELSE IF args.stats THEN "stats"
    ELSE IF args.clean THEN "clean"
    ELSE "help"

\* one invocation of main() with the parsed arguments args that takes
\* the given branch
Main(args, branch) ==
    /\ clock < MaxClock
    /\ Branch(args) = branch
    /\ clock' = clock + 1
    /\ argv' = args
    /\ prior' = log
    /\ before' = [users |-> users, songs |-> songs, piano_lessons |-> piano_lessons]
    /\ UNCHANGED dbExists

----------------------------------------------------------------------------
\* The stores main() may be started against

SongCatalog ==
    UNION {{[id |-> SONGS[d][k].id, title |-> SONGS[d][k].title,
             composer |-> SONGS[d][k].composer, duration |-> SONGS[d][k].duration,
             bpm |-> SONGS[d][k].bpm, total_notes |-> SONGS[d][k].total_notes,
             difficulty |-> d] : k \in 1..Len(SONGS[d])} : d \in DOMAIN SONGS}

PreUser(id, username, email) ==
    [id |-> id, username |-> username, email |-> email,
     password_hash |-> <<"bcrypt_", username>>, created_at |-> 0]

\* rows of the application itself: an account that holds id 1, an account
\* with id 0 in the fixture domain, and an account outside both
PreUsers ==
    {PreUser(1, "admin", Email("admin", "example.com")),
     PreUser(0, "zed", Email("zed", "piano.local")),
     PreUser(25, "real_user", Email("real", "example.com"))}

\* no account; the outside account with the holder of id 1, with the
\* account of id 0, or with both
InitialUsers ==
    {{}, PreUsers,
     {u \in PreUsers : u.id # 0},
     {u \in PreUsers : u.id # 1}}

PreLesson(user_id, song) ==
    LessonRow(user_id, song, 1, 88000, 90000, 0)

PreLessons ==
    << PreLesson(0, SONGS.advanced[1]),
       PreLesson(1, SONGS.advanced[2]),
       PreLesson(25, SONGS.beginner[3]) >>

Init ==
    /\ dbExists \in BOOLEAN
    /\ users \in (IF dbExists THEN InitialUsers ELSE {{}})
    /\ songs \in (IF dbExists THEN {{}, SongCatalog} ELSE {{}})
    /\ piano_lessons \in (IF dbExists THEN {<<>>, PreLessons} ELSE {<<>>})
    /\ clock = 0
    /\ argv = Args("none", FALSE, FALSE)
    /\ confirm = <<>>
    /\ log = <<>>
    /\ prior = <<>>
    /\ printed = Nothing
    /\ inserted = <<>>
    /\ sessions = <<>>
    /\ before = [users |-> users, songs |-> songs, piano_lessons |-> piano_lessons]

Next ==
    \E args \in ArgVectors :
        \/ Main(args, "not_found") /\ NotFound
        \/ Main(args, "all") /\ GenerateAll(clock + 1)
        \/ Main(args, "users") /\ GenerateUsers(clock + 1)
        \/ Main(args, "lessons") /\ GenerateLessons(clock + 1)
        \/ Main(args, "stats") /\ Stats
        \/ Main(args, "clean") /\ Clean
        \/ Main(args, "help") /\ Help

Spec == Init /\ [][Next]_vars

----------------------------------------------------------------------------
\* Properties

Ran(op) == \E k \in 1..Len(log) : log[k] = op

RanBefore(op) == \E k \in 1..Len(prior) : prior[k] = op

\* the rows the last invocation appended to piano_lessons
NewRows == Len(before.piano_lessons) + 1 .. Len(piano_lessons)

FixtureIds == {USERS[k].id : k \in 1..Len(USERS)}

\* C1: seed-users is idempotent: a run keeps every row it found, a run on
\* a store without users leaves exactly the 20 fixture rows, and a second run
\* right after a first changes nothing (no row added, changed or duplicated).
C1_SeedUsersIdempotent ==
    Ran("generate_users") =>
        /\ before.users \subseteq users
        /\ (before.users = {} =>
                /\ Cardinality(users) = 20
                /\ users = {[id |-> USERS[k].id, username |-> USERS[k].username,
                             email |-> USERS[k].email,
                             password_hash |-> <<"hash_", USERS[k].username>>,
                             created_at |-> clock * 86400] : k \in 1..Len(USERS)})
        /\ (RanBefore("generate_users") => users = before.users)
        /\ generate_users(users, clock + 1).users = users
        /\ \A u, v \in users : u.id = v.id => u = v

\* a second run in a row, on a store where another account holds id 1
C1_Witness ==
    /\ Ran("generate_users") /\ RanBefore("generate_users")
    /\ \E u \in users : u.id = 1 /\ u.username = "admin"
    /\ \E u \in users : u.id = 2 /\ u.username = "bob_beginner"
    /\ Cardinality(users) > 20

\* C2 as stated: seed-lessons on a store whose songs table is empty skips
\* every sampled session, stores no row and reports 0.
C2_EmptySongsSkipsAll ==
    (Ran("generate_lessons") /\ before.songs = {}) =>
        /\ \A k \in 1..Len(sessions) : sessions[k].kind = "skipped"
        /\ NewRows = {}
        /\ printed.lessons = <<0>>

\* C2 amended: on a store whose songs table is empty no sampled session is
\* skipped (every sampled id resolves in the static catalog SONGS); every
\* session whose insert succeeds is stored, the count reported is the number
\* of rows stored, and the only failures reported are rejected inserts.
C2_EmptySongsStillSeeds ==
    (Ran("generate_lessons") /\ before.songs = {}) =>
        /\ \A k \in 1..Len(sessions) : sessions[k].kind # "skipped"
        /\ Len(sessions) >= 60 /\ Len(sessions) <= 100
        /\ printed.lessons = <<Cardinality(NewRows)>>
        /\ Cardinality(NewRows) + Len(printed.errors) = Len(sessions)

C2_Witness ==
    /\ Ran("generate_lessons") /\ before.songs = {}
    /\ printed.errors = <<>>
    /\ Cardinality(NewRows) > 60

\* C3: after seed-users then seed-lessons on a store that started with no
\* rows, the four per-difficulty counts of the statistics report are
\* non-negative and add up to the total lesson count of the report.
C3_DifficultySumsToTotal ==
    LET startedEmpty ==
            \/ /\ log = <<"connect", "generate_users", "generate_lessons",
                          "show_stats", "close">>
               /\ before.users = {} /\ before.songs = {}
               /\ before.piano_lessons = <<>>
            \/ /\ clock = 2
               /\ prior = <<"connect", "generate_users", "close">>
               /\ log = <<"connect", "generate_lessons", "close">>
               /\ Cardinality(before.users) = 20
               /\ FixtureUserCount(before.users) = 20
               /\ before.songs = {} /\ before.piano_lessons = <<>>
        report == show_stats(users, songs, piano_lessons)
    IN startedEmpty =>
        /\ \A d \in DOMAIN report.by_difficulty : report.by_difficulty[d] >= 0
        /\ report.by_difficulty["beginner"] + report.by_difficulty["intermediate"]
            + report.by_difficulty["advanced"] + report.by_difficulty["master"]
           = report.lesson_count

\* C4: after purge the store holds no user with a fixture email, no song,
\* and no session row that references a deleted song.
C4_PurgeLeavesNoOrphans ==
    Ran("clean_data") =>
        /\ \A u \in users : u.email.domain # "piano.local"
        /\ songs = {}
        /\ \A k \in 1..Len(piano_lessons) :
              piano_lessons[k].song_id \notin {s.id : s \in before.songs}

\* C5: every fixture user has one tier in the tier table, and every row
\* seed-lessons stores references a song of the static catalog whose tier is
\* the tier of the row's user (beginner 1-5, intermediate 6-10, advanced
\* 11-15, master 16-20).
C5_SongTierMatchesUserTier ==
    LET TierOfSong(id) ==
            {d \in DOMAIN SONGS : \E k \in 1..Len(SONGS[d]) : SONGS[d][k].id = id}
        IdsOfTier(d) ==
            CASE d = "beginner" -> 1..5
              [] d = "intermediate" -> 6..10
              [] d = "advanced" -> 11..15
              [] d = "master" -> 16..20
    IN /\ \A uid \in FixtureIds :
            /\ uid \in DOMAIN user_levels
            /\ user_levels[uid].level \in DOMAIN SONGS
       /\ Ran("generate_lessons") =>
            \A k \in NewRows :
                /\ piano_lessons[k].user_id \in DOMAIN user_levels
                /\ TierOfSong(piano_lessons[k].song_id)
                     = {user_levels[piano_lessons[k].user_id].level}
                /\ piano_lessons[k].song_id
                     \in IdsOfTier(user_levels[piano_lessons[k].user_id].level)

\* a run that stored rows of all four tiers, the highest and lowest song ids
\* of a tier among them
C5_Witness ==
    /\ Ran("generate_lessons")
    /\ \A d \in {5, 6, 10, 11, 15, 16, 20} :
          \E k \in NewRows : piano_lessons[k].song_id = d
    /\ \E k \in NewRows : piano_lessons[k].user_id = 1

\* C6: in a seed-lessons run where no insert fails every one of the 20
\* fixture users is in the tier table and gets 3 to 5 rows, the run adds 60
\* to 100 rows, and no user outside the tier table gets a row.
C6_ThreeToFivePerUser ==
    (Ran("generate_lessons") /\ printed.errors = <<>>) =>
        /\ \A uid \in FixtureIds :
              /\ uid \in DOMAIN user_levels
              /\ Cardinality({k \in NewRows : piano_lessons[k].user_id = uid})
                    \in 3..5
        /\ Cardinality(NewRows) \in 60..100
        /\ \A k \in NewRows : piano_lessons[k].user_id \in DOMAIN user_levels
        /\ \A k \in NewRows : piano_lessons[k].user_id \in FixtureIds

\* a run without a failed insert in which users got 3, 4 and 5 rows
C6_Witness ==
    /\ Ran("generate_lessons") /\ printed.errors = <<>>
    /\ \A c \in 3..5 : \E uid \in FixtureIds :
          Cardinality({k \in NewRows : piano_lessons[k].user_id = uid}) = c

\* C7 as stated: in every row seed-lessons stores, notes_correct is
\* floor(notes_total * accuracy / 100) for the accuracy stored in the row,
\* and never exceeds notes_total.
C7_NotesCorrectFromStoredAccuracy ==
    Ran("generate_lessons") =>
        \A k \in NewRows :
            /\ piano_lessons[k].notes_correct
                 = (piano_lessons[k].notes_total * piano_lessons[k].accuracy) \div 10000
            /\ piano_lessons[k].notes_correct <= piano_lessons[k].notes_total

\* C7 amended: notes_correct is floor(notes_total * a / 100) for the
\* accuracy a as drawn from [75, 97]; the row stores a rounded to two
\* decimals, so notes_correct is within 1 of the value computed from the
\* stored accuracy; it never exceeds notes_total.
C7_NotesCorrectFromDrawnAccuracy ==
    Ran("generate_lessons") =>
        /\ Len(inserted) = Cardinality(NewRows)
        /\ \A j \in 1..Len(inserted) :
            LET row == piano_lessons[Len(before.piano_lessons) + j]
                a == inserted[j].accuracy
                fromStored == (row.notes_total * row.accuracy) \div 10000
            IN /\ a >= 75000 /\ a <= 97000
               /\ 10 * row.accuracy - a <= 5 /\ a - 10 * row.accuracy <= 5
               /\ row.notes_correct * 100000 <= row.notes_total * a
               /\ row.notes_total * a < (row.notes_correct + 1) * 100000
               /\ row.notes_correct - fromStored \in {-1, 0, 1}
               /\ row.notes_correct <= row.notes_total

\* a stored row whose notes_correct is not what its stored accuracy gives
C7_Witness ==
    /\ Ran("generate_lessons")
    /\ \E k \in NewRows :
          piano_lessons[k].notes_correct
            # (piano_lessons[k].notes_total * piano_lessons[k].accuracy) \div 10000

\* C8: purge runs only when the storage target exists, clean is the mode
\* selected and the confirmation was answered yes; when the target is absent
\* no operation runs and the store is not opened, whatever the flags.
C8_PurgeGatedAndMissingTargetAborts ==
    /\ Ran("clean_data") =>
          /\ dbExists
          /\ argv.clean /\ argv.generate = "none" /\ ~argv.stats
          /\ confirm \in {<<"y">>, <<"Y">>}
    /\ (~dbExists /\ clock > 0) =>
          /\ log = <<"not_found">>
          /\ confirm = <<>>
          /\ users = {} /\ songs = {} /\ piano_lessons = <<>>
          /\ printed = [users |-> <<>>, lessons |-> <<>>, errors |-> <<>>,
                        stats |-> <<>>]

\* a purge after an upper-case yes that removed rows
C8_Witness ==
    /\ Ran("clean_data") /\ confirm = <<"Y">>
    /\ Len(piano_lessons) < Len(before.piano_lessons)

\* C9: a failed insert does not end seed-lessons: the sessions after it, of
\* that user and of the users after, are still processed, and the count
\* reported is the number of inserts that succeeded, which is the number of
\* rows the run added.
C9_InsertFailureIsLocal ==
    Ran("generate_lessons") =>
        /\ printed.lessons = <<Cardinality(NewRows)>>
        /\ Cardinality(NewRows)
             = Cardinality({k \in 1..Len(sessions) : sessions[k].kind = "inserted"})
        /\ Len(printed.errors)
             = Cardinality({k \in 1..Len(sessions) : sessions[k].kind = "error"})
        /\ \A uid \in DOMAIN user_levels :
              Cardinality({k \in 1..Len(sessions) : sessions[k].uid = uid}) \in 3..5
        /\ \A k \in 1..Len(piano_lessons) :
              k \notin NewRows => piano_lessons[k] = before.piano_lessons[k]

\* a run with failed inserts: a row stored for the same user after a failure,
\* and the last user's sessions still stored
C9_Witness ==
    /\ Ran("generate_lessons")
    /\ printed.errors # <<>>
    /\ \E j, k \in 1..Len(sessions) :
          /\ j < k
          /\ sessions[j].uid = sessions[k].uid
          /\ sessions[j].kind = "error" /\ sessions[k].kind = "inserted"
    /\ \E k \in NewRows : piano_lessons[k].user_id = 20

====
